---- MODULE Spec2Model ----
(***************************************************************************)
(* State-machine model of the lazybox support-automation server:           *)
(*   - fetchWithRetry, the HTTP retry/backoff utility (lib/http/fetch);     *)
(*   - the proposal review/execution workflow (listProposals' siblings      *)
(*     executeProposal, reviewProposal, bulkReviewProposals, orchestrate);  *)
(*   - the mailbox poll (poll server function, cron route, pollForUser);    *)
(*   - runShopifyAction, the commerce action executor (shopify/helpers);    *)
(*   - fetchWithAuthRetry and doRefresh, the poll's authorized requests;    *)
(*   - listProposals, the keyset-paginated proposal list.                   *)
(* Each part has its own specification over the shared variables; a part's  *)
(* actions leave the other parts' variables unchanged.                      *)
(***************************************************************************)
EXTENDS Integers, Sequences, FiniteSets, TLC

VARIABLES
    fw,             \* the one fetchWithRetry call under study (locals + ghost log)
    proposalTable,  \* db: proposal rows
    actionTable,    \* db: action rows
    exec,           \* executeProposal handler instances
    review,         \* reviewProposal handler instances
    orch,           \* the orchestrate handler instance
    calls,          \* ghost: commerce API calls made so far
    ops,            \* ghost: number of handler invocations started (bounded)
    settings,       \* db: settings row of every user
    emailTable,     \* db: email rows
    activePolls,    \* the in-memory lock map of gmail.ts (its key set)
    run,            \* poll / cron handler instances with their pollForUser locals
    arrived,        \* mailbox: messages 1..arrived exist (message m has historyId m)
    now,            \* wall clock, in ticks of TickMs
    uuids,          \* ghost: emailId -> gmail message of every randomUUID() email id
    lastFinish,     \* ghost: when the latest poll-started run that reached the mailbox ended
    tokenTable,     \* db: users holding a Gmail OAuth token
    env,            \* server environment (CRON_SECRET)
    limits,         \* the bounds of the scenario explored, fixed by the initial state
    sa,             \* the one runShopifyAction call under study (locals + ghost log)
    ar,             \* one poll's fetchWithAuthRetry calls (closure state + ghost log)
    lp              \* one client's walk through the pages of listProposals

pollVars == <<settings, emailTable, activePolls, run, arrived, now, uuids, lastFinish, tokenTable, env, limits>>
workflowVars == <<actionTable, exec, review, orch, calls>>
helperVars == <<sa, ar, lp>>
vars == <<fw, proposalTable, ops, workflowVars, pollVars, helperVars>>

proposalVars == <<proposalTable, ops, workflowVars, pollVars, helperVars>>
aside == <<fw, pollVars, helperVars>>

(***************************************************************************)
(* JavaScript strings, values and Number()                                  *)
(***************************************************************************)

\* Strings whose characters the code inspects are sequences of one-character strings.
LowerLetters == <<"a","b","c","d","e","f","g","h","i","j","k","l","m",
                  "n","o","p","q","r","s","t","u","v","w","x","y","z">>
UpperLetters == <<"A","B","C","D","E","F","G","H","I","J","K","L","M",
                  "N","O","P","Q","R","S","T","U","V","W","X","Y","Z">>
Digits == <<"0","1","2","3","4","5","6","7","8","9">>

ToLowerChar(c) ==
    IF \E i \in 1..26 : UpperLetters[i] = c
    THEN LowerLetters[CHOOSE i \in 1..26 : UpperLetters[i] = c]
    ELSE c
IsDigit(c) == \E i \in 1..10 : Digits[i] = c
DigitValue(c) == (CHOOSE i \in 1..10 : Digits[i] = c) - 1
\* [a-z0-9] under the i flag
IsAlNum(c) == IsDigit(c) \/ \E i \in 1..26 : LowerLetters[i] = ToLowerChar(c)

\* JSON / JavaScript values a payload field or a header may hold:
\*   t: "undefined", "null", "boolean" (n = 1 true, 0 false), "number" (finite, n),
\*      "nan", "infinity", "string" (s, a character sequence), "array" ([n]), "object"
JsValue(t, n, str) == [t |-> t, n |-> n, s |-> str]
JsUndefined == JsValue("undefined", 0, <<>>)

\* A number: k is "fin" (value n), "nan" or "inf"
Num(k, n) == [k |-> k, n |-> n]

RECURSIVE DigitsValue(_, _)
DigitsValue(str, acc) ==
    IF str = <<>> THEN acc ELSE DigitsValue(Tail(str), acc * 10 + DigitValue(Head(str)))

RECURSIVE TrimLeft(_)
TrimLeft(str) == IF str # <<>> /\ Head(str) = " " THEN TrimLeft(Tail(str)) ELSE str
RECURSIVE TrimRight(_)
TrimRight(str) ==
    IF str # <<>> /\ str[Len(str)] = " " THEN TrimRight(SubSeq(str, 1, Len(str) - 1)) ELSE str

\* Number(string): white space is trimmed, "" is 0, an optionally signed run of
\* decimal digits is its value, anything else is NaN (fractions, exponents and
\* radix prefixes are not among the strings explored)
StringToNumber(str) ==
    LET t == TrimRight(TrimLeft(str))
        signed == t # <<>> /\ Head(t) \in {"-", "+"}
        body == IF signed THEN Tail(t) ELSE t
    IN  IF t = <<>> THEN Num("fin", 0)
        ELSE IF body # <<>> /\ \A i \in 1..Len(body) : IsDigit(body[i])
        THEN Num("fin", IF Head(t) = "-" THEN 0 - DigitsValue(body, 0) ELSE DigitsValue(body, 0))
        ELSE Num("nan", 0)

\* Number(raw)
ToNumber(v) ==
    CASE v.t = "undefined" -> Num("nan", 0)
      [] v.t = "null" -> Num("fin", 0)
      [] v.t = "boolean" -> Num("fin", v.n)
      [] v.t = "number" -> Num("fin", v.n)
      [] v.t = "nan" -> Num("nan", 0)
      [] v.t = "infinity" -> Num("inf", 0)
      [] v.t = "string" -> StringToNumber(v.s)
      [] v.t = "array" -> Num("fin", v.n)      \* Number([7]) is Number("7")
      [] v.t = "object" -> Num("nan", 0)       \* Number({}) is Number("[object Object]")

(***************************************************************************)
(* Part 1: fetchWithRetry                                                   *)
(***************************************************************************)

\* Bounds of the inputs explored
MaxRetries == 3
Methods == {"GET", "POST", "put"}
HeaderKeys == {"", "hdr-key"}       \* caller's headers["X-Idempotency-Key"], "" = absent
IdemOptions == {"", "opt-key"}      \* opts.idempotencyKey, "" = absent/empty (falsy)
GeneratedKeys == {"uuid-1", "uuid-2"}  \* values randomUUID() may return
BackoffOptions == {0, 400}
ResponseStatuses == {200, 401, 404, 429, 500, 503}
\* res.headers.get("retry-after"): null when absent, else the header's text
NoHeader == JsValue("null", 0, <<>>)
RetryAfterHeaders ==
    {NoHeader} \cup { JsValue("string", 0, str) : str \in { <<"0">>, <<"2">>, <<"-","1">>, <<"W","e","d">> } }
Jitters == {0, 249}                 \* sampled values of floor(random() * 250)

\* Program constants (defaults of the destructured options)
DefaultRetries == 2
DefaultBackoffMs == 500

Pow2(n) == IF n = 0 THEN 1 ELSE IF n = 1 THEN 2 ELSE IF n = 2 THEN 4
           ELSE IF n = 3 THEN 8 ELSE IF n = 4 THEN 16 ELSE 32

ToUpperCase(m) == IF m = "put" THEN "PUT" ELSE m

isMutating(method) == ToUpperCase(method) \in {"POST", "PUT", "PATCH", "DELETE"}

\* opts are records; an option left out of the record is undefined and takes its default
OptRetries(opts) == IF "retries" \in DOMAIN opts THEN opts.retries ELSE DefaultRetries
OptBackoffMs(opts) == IF "backoffMs" \in DOMAIN opts THEN opts.backoffMs ELSE DefaultBackoffMs

FetchOptions ==
    LET base == [method : Methods, hdrKey : HeaderKeys, idempotencyKey : IdemOptions]
    IN  { [method |-> b.method, hdrKey |-> b.hdrKey, idempotencyKey |-> b.idempotencyKey] : b \in base }
        \cup { [method |-> b.method, hdrKey |-> b.hdrKey, idempotencyKey |-> b.idempotencyKey,
                retries |-> r, backoffMs |-> k] : b \in base, r \in 0..MaxRetries, k \in BackoffOptions }

\* baseHeaders["X-Idempotency-Key"] after lines 44-48 ("" = header not set)
BaseIdemHeaderAlways(opts, uuid) ==
    IF opts.hdrKey = ""
    THEN (IF opts.idempotencyKey # "" THEN opts.idempotencyKey ELSE uuid)
    ELSE opts.hdrKey

BaseIdemHeader(opts, uuid) ==
    IF isMutating(opts.method) /\ opts.hdrKey = ""
    THEN (IF opts.idempotencyKey # "" THEN opts.idempotencyKey ELSE uuid)
    ELSE opts.hdrKey

shouldRetryResponseAny(status) == status = 429 \/ status >= 200
shouldRetryResponseClientErrors(status) == status >= 400

shouldRetryResponse(status) == status = 429 \/ status >= 500

CanRetryInclusive(attempt, retries) == attempt <= retries

CanRetry(attempt, retries) == attempt < retries

\* Number(res.headers.get("retry-after")) || 0
\* Number(res.headers.get("retry-after")) || 0
ParseRetryAfter(h) == LET x == ToNumber(h) IN IF x.k = "fin" THEN x.n ELSE 0

ResponseWaitSeconds(retryAfter, backoffMs, attempt, jitter) ==
    IF retryAfter > 0 THEN retryAfter ELSE backoffMs * Pow2(attempt) + jitter

ResponseWait(retryAfter, backoffMs, attempt, jitter) ==
    IF retryAfter > 0 THEN retryAfter * 1000 ELSE backoffMs * Pow2(attempt) + jitter

ErrorWait(backoffMs, attempt, jitter) == backoffMs * Pow2(attempt) + jitter

FwIdle ==
    [pc |-> "idle", opts |-> [method |-> "GET", hdrKey |-> "", idempotencyKey |-> ""],
     attempt |-> 0, key |-> "", sent |-> <<>>, outcomes |-> <<>>,
     wait |-> 0, retryAfter |-> NoHeader,
     result |-> 0 - 2]     \* what the call handed to its caller: a status, 0 / -1 for a thrown error / timeout, -2 for nothing yet

\* lines 41-50: destructure the options, build baseHeaders, attempt = 0
FwCall ==
    /\ fw.pc = "idle"
    /\ \E o \in FetchOptions, uuid \in GeneratedKeys :
         fw' = [fw EXCEPT !.pc = "fetch", !.opts = o, !.attempt = 0,
                          !.key = BaseIdemHeader(o, uuid)]
    /\ UNCHANGED proposalVars

\* lines 56-68: one request that receives a response
FwResponse ==
    /\ fw.pc = "fetch"
    /\ \E status \in ResponseStatuses, h \in RetryAfterHeaders, jitter \in Jitters :
         LET sent == Append(fw.sent, fw.key)
             outs == Append(fw.outcomes, status)
         IN  IF CanRetry(fw.attempt, OptRetries(fw.opts)) /\ shouldRetryResponse(status)
             THEN fw' = [fw EXCEPT !.sent = sent, !.outcomes = outs,
                                   !.wait = ResponseWait(ParseRetryAfter(h), OptBackoffMs(fw.opts),
                                                         fw.attempt, jitter),
                                   !.retryAfter = h,
                                   !.attempt = fw.attempt + 1]
             ELSE fw' = [fw EXCEPT !.sent = sent, !.outcomes = outs,
                                   !.pc = "returned", !.result = status]
    /\ UNCHANGED proposalVars

\* lines 69-81: one request that throws (network error, or abort after timeoutMs);
\* outcome 0 stands for a thrown error, -1 for a timeout
FwError ==
    /\ fw.pc = "fetch"
    /\ \E err \in {0, 0 - 1}, jitter \in Jitters :
         LET sent == Append(fw.sent, fw.key)
             outs == Append(fw.outcomes, err)
         IN  IF CanRetry(fw.attempt, OptRetries(fw.opts))
             THEN fw' = [fw EXCEPT !.sent = sent, !.outcomes = outs,
                                   !.wait = ErrorWait(OptBackoffMs(fw.opts), fw.attempt, jitter),
                                   !.retryAfter = NoHeader,
                                   !.attempt = fw.attempt + 1]
             ELSE fw' = [fw EXCEPT !.sent = sent, !.outcomes = outs,
                                   !.pc = "thrown", !.result = err]
    /\ UNCHANGED proposalVars

NextFetch == FwCall \/ FwResponse \/ FwError

(***************************************************************************)
(* Part 2: proposal review and execution                                    *)
(***************************************************************************)

MaxOps == 3             \* handler invocations explored
ExecHandlers == {"e1", "e2"}    \* concurrent executeProposal requests
ReviewHandlers == {"r1"}        \* concurrent reviewProposal requests
ProposalIds == {1, 2}
OrchEmailIds == {1, 2}          \* data.emailId values a client may send to orchestrate
Decisions == {"approved", "rejected"}
\* what runShopifyActionBridge / runShopifyAction can come back with:
\*   no_call : ok=false before any request (missing auth, failed validation)
\*   ok      : the commerce API was called and answered 2xx
\*   failed  : the commerce API was called and the call failed (non-2xx or exception)
BridgeOutcomes == {"no_call", "ok", "failed"}

Row(id) == CHOOSE r \in proposalTable : r.id = id
HasRow(id) == \E r \in proposalTable : r.id = id
StatusOf(id) == IF HasRow(id) THEN Row(id).status ELSE "none"

\* db.update(proposalTable).set({status}).where(eq(id))
SetStatus(table, id, st) ==
    { IF r.id = id THEN [r EXCEPT !.status = st] ELSE r : r \in table }

\* db.insert(proposalTable)...onConflictDoNothing(target: emailId, actionType, payloadHash);
\* status takes the schema default "proposed"
KeyOf(r) == <<r.emailId, r.actionType, r.payloadHash>>

NewProposal(id, emailId, actionType, payloadHash) ==
    [id |-> id, emailId |-> emailId, actionType |-> actionType,
     payloadHash |-> payloadHash, status |-> "proposed"]

InsertProposal(table, row) ==
    IF \E r \in table : KeyOf(r) = KeyOf(row)
    THEN table
    ELSE table \cup {row}

ExecutableStatusNotDone(st) == st # "executed"

\* secureStore.ts:155
ExecutableStatus(st) == st \in {"proposed", "approved"}

\* secureStore.ts:181 and :200
ReviewableStatus(st) == st \in {"proposed", "approved", "rejected"}

ResultStatus(outcome) == IF outcome = "ok" THEN "executed" ELSE "failed"

ExecIdle == [pc |-> "idle", proposalId |-> 1, rowStatus |-> "none", res |-> "none"]
ReviewIdle == [pc |-> "idle", proposalId |-> 1, decision |-> "approved"]
OrchIdle == [pc |-> "idle", execute |-> FALSE, auth |-> FALSE, proposed |-> <<>>, executed |-> <<>>]

\* executeProposal, lines 153-157: load the row, check its status
ExecFind(h) ==
    /\ exec[h].pc = "idle"
    /\ ops < MaxOps
    /\ ops' = ops + 1
    /\ \E id \in ProposalIds :
         IF HasRow(id) /\ ExecutableStatus(Row(id).status)
         THEN exec' = [exec EXCEPT ![h] = [pc |-> "bridge", proposalId |-> id,
                                           rowStatus |-> Row(id).status, res |-> "none"]]
         ELSE exec' = exec      \* proposal_not_found / invalid_status
    /\ UNCHANGED <<aside, proposalTable, actionTable, review, orch, calls>>

\* line 158: await runShopifyActionBridge(...)
ExecBridge(h) ==
    /\ exec[h].pc = "bridge"
    /\ \E o \in BridgeOutcomes :
         /\ exec' = [exec EXCEPT ![h].pc = "insertAction", ![h].res = o]
         /\ calls' = IF o = "no_call" THEN calls
                      ELSE Append(calls, [proposalId |-> exec[h].proposalId,
                                          by |-> "executeProposal", execute |-> TRUE,
                                          statusRead |-> exec[h].rowStatus,
                                          statusAtCall |-> StatusOf(exec[h].proposalId)])
    /\ UNCHANGED <<aside, proposalTable, actionTable, review, orch, ops>>

\* lines 159-167: insert the action row (id = randomUUID())
ExecInsertAction(h) ==
    /\ exec[h].pc = "insertAction"
    /\ actionTable' = Append(actionTable, [proposalId |-> exec[h].proposalId,
                                            status |-> ResultStatus(exec[h].res)])
    /\ exec' = [exec EXCEPT ![h].pc = "update"]
    /\ UNCHANGED <<aside, proposalTable, review, orch, calls, ops>>

\* line 168: update the proposal's status, then return
ExecUpdate(h) ==
    /\ exec[h].pc = "update"
    /\ proposalTable' = SetStatus(proposalTable, exec[h].proposalId, ResultStatus(exec[h].res))
    /\ exec' = [exec EXCEPT ![h] = ExecIdle]
    /\ UNCHANGED <<aside, actionTable, review, orch, calls, ops>>

\* reviewProposal, lines 179-183
ReviewFind(h) ==
    /\ review[h].pc = "idle"
    /\ ops < MaxOps
    /\ ops' = ops + 1
    /\ \E id \in ProposalIds, d \in Decisions :
         IF HasRow(id) /\ ReviewableStatus(Row(id).status)
         THEN review' = [review EXCEPT ![h] = [pc |-> "update", proposalId |-> id, decision |-> d]]
         ELSE review' = review
    /\ UNCHANGED <<aside, proposalTable, actionTable, exec, orch, calls>>

\* line 184
ReviewUpdate(h) ==
    /\ review[h].pc = "update"
    /\ proposalTable' = SetStatus(proposalTable, review[h].proposalId, review[h].decision)
    /\ review' = [review EXCEPT ![h] = ReviewIdle]
    /\ UNCHANGED <<aside, actionTable, exec, orch, calls, ops>>

\* bulkReviewProposals, lines 193-204: one UPDATE ... WHERE id IN (...) AND status IN (...)
BulkReview ==
    /\ ops < MaxOps
    /\ ops' = ops + 1
    /\ \E ids \in (SUBSET ProposalIds) \ {{}}, d \in Decisions :
         proposalTable' = { IF r.id \in ids /\ ReviewableStatus(r.status)
                            THEN [r EXCEPT !.status = d] ELSE r : r \in proposalTable }
    /\ UNCHANGED <<aside, actionTable, exec, review, orch, calls>>

\* randomUUID() of a proposed action: an id no row and no pending action uses
FreshIds == { id \in ProposalIds : ~HasRow(id) }

\* orchestrate (gmail.ts 123-133), orchestrateEmailBridge (resolve settings and the
\* optional Shopify auth) and orchestrateEmail's proposeFromEmail call
OrchStart ==
    /\ orch.pc = "idle"
    /\ ops < MaxOps
    /\ ops' = ops + 1
    /\ \E execute \in BOOLEAN, auth \in BOOLEAN,
          proposed \in {<<>>} \cup { <<NewProposal(id, e, "cancel_order", "h1")>> : id \in FreshIds, e \in OrchEmailIds } :
         orch' = [pc |-> "onProposed", execute |-> execute, auth |-> execute /\ auth,
                  proposed |-> proposed, executed |-> <<>>]
    /\ UNCHANGED <<aside, proposalTable, actionTable, exec, review, calls>>

\* reporter.onProposed: insert the proposals; orchestrateEmail returns here unless execute
OrchOnProposed ==
    /\ orch.pc = "onProposed"
    /\ proposalTable' = IF orch.proposed = <<>> THEN proposalTable
                         ELSE InsertProposal(proposalTable, orch.proposed[1])
    /\ orch' = IF orch.execute THEN [orch EXCEPT !.pc = "execute"] ELSE OrchIdle
    /\ UNCHANGED <<aside, actionTable, exec, review, calls, ops>>

\* orchestrateEmail's loop over the proposed actions (orchestrator.ts 43-60)
OrchExecute ==
    /\ orch.pc = "execute"
    /\ IF orch.proposed = <<>>
       THEN /\ orch' = [orch EXCEPT !.pc = "insertAction"]
            /\ calls' = calls
       ELSE IF ~orch.auth
       THEN /\ orch' = [orch EXCEPT !.pc = "insertAction",
                                    !.executed = <<[id |-> orch.proposed[1].id, res |-> "no_call"]>>]
            /\ calls' = calls
       ELSE \E o \in BridgeOutcomes :
            /\ orch' = [orch EXCEPT !.pc = "insertAction",
                                    !.executed = <<[id |-> orch.proposed[1].id, res |-> o]>>]
            /\ calls' = IF o = "no_call" THEN calls
                         ELSE Append(calls, [proposalId |-> orch.proposed[1].id,
                                             by |-> "orchestrate", execute |-> orch.execute,
                                             statusRead |-> "unchecked",
                                             statusAtCall |-> StatusOf(orch.proposed[1].id)])
    /\ UNCHANGED <<aside, proposalTable, actionTable, exec, review, ops>>

\* reporter.onExecuted, insert of the action row (bridge 170-177)
OrchInsertAction ==
    /\ orch.pc = "insertAction"
    /\ IF orch.executed = <<>>
       THEN /\ orch' = OrchIdle
            /\ actionTable' = actionTable
       ELSE /\ orch' = [orch EXCEPT !.pc = "update"]
            /\ actionTable' = Append(actionTable, [proposalId |-> orch.executed[1].id,
                                                    status |-> ResultStatus(orch.executed[1].res)])
    /\ UNCHANGED <<aside, proposalTable, exec, review, calls, ops>>

\* reporter.onExecuted, update of the proposal status (bridge 179)
OrchUpdate ==
    /\ orch.pc = "update"
    /\ proposalTable' = SetStatus(proposalTable, orch.executed[1].id, ResultStatus(orch.executed[1].res))
    /\ orch' = OrchIdle
    /\ UNCHANGED <<aside, actionTable, exec, review, calls, ops>>

NextProposals ==
    \/ \E h \in ExecHandlers : ExecFind(h) \/ ExecBridge(h) \/ ExecInsertAction(h) \/ ExecUpdate(h)
    \/ \E h \in ReviewHandlers : ReviewFind(h) \/ ReviewUpdate(h)
    \/ BulkReview
    \/ OrchStart \/ OrchOnProposed \/ OrchExecute \/ OrchInsertAction \/ OrchUpdate

(***************************************************************************)
(* Part 3: the mailbox poll (poll server function, cron route, pollForUser) *)
(***************************************************************************)

\* Bounds. SpecPoll explores overlapping requests on a small mailbox, SpecSync
\* explores one request at a time on a larger one.
PollMailbox == {1}      \* SpecPoll: the messages that may arrive in the mailbox
PollOps == 2            \* SpecPoll: poll / cron requests explored
PollTicks == 2          \* SpecPoll: clock ticks explored
SyncMsgs == 3           \* SpecSync: messages in the mailbox
SyncOps == 2            \* SpecSync: poll / cron requests explored
SyncTicks == 1          \* SpecSync: clock ticks explored
TickMs == 2500          \* length of a clock tick
StartTick == 3          \* clock value in the initial state
PollHandlers == {"p1", "p2"}    \* concurrent requests to the poll server function
CronHandlers == {"c1"}          \* concurrent requests to GET /api/cron/gmail-poll
Users == {"u1", "u2"}
Secrets == {"", "s3cret", "wrong"}

\* Program constants
minIntervalMs == 5000
MaxHistoryPages == 5

Handlers == PollHandlers \cup CronHandlers
Kind(h) == IF h \in PollHandlers THEN "poll" ELSE "cron"
Max(a, b) == IF a >= b THEN a ELSE b

RECURSIVE Ascending(_)
Ascending(S) ==
    IF S = {} THEN <<>>
    ELSE LET m == CHOOSE x \in S : \A y \in S : x <= y
         IN  <<m>> \o Ascending(S \ {m})

RECURSIVE Descending(_)
Descending(S) ==
    IF S = {} THEN <<>>
    ELSE LET m == CHOOSE x \in S : \A y \in S : x >= y
         IN  <<m>> \o Descending(S \ {m})

\* A history id 0 stands for null / undefined, a timestamp 0 for null. The last six
\* fields are ghosts: a mailbox request was sent, the run began too soon after the
\* last one, a history request was answered non-ok, the list request was sent, the
\* message ids the history responses reported as added, and the secret the cron
\* request carried ("none": not a cron request).
RunIdle ==
    [pc |-> "idle", user |-> "u1", queue |-> <<>>, results |-> <<>>, response |-> "none",
     last |-> 0, cursor |-> 0, next |-> 0, maxSeen |-> 0, ids |-> {}, page |-> 0, token |-> 0,
     msgs |-> <<>>, i |-> 1, maxFromMsgs |-> 0, emailId |-> 0,
     sent |-> FALSE, tooSoon |-> FALSE, histNonOk |-> FALSE, fellBack |-> FALSE, delta |-> {},
     secret |-> "none"]

PfuPcs == {"settings", "history", "list", "listFailed", "dedup", "get", "insert", "propose", "finish"}
InPollForUser(h) == run[h].pc \in PfuPcs

\* The mailbox's answer to users.history.list(startHistoryId, pageToken): the history
\* record of every message after the start, one record a page.
HistoryPage(start, token) ==
    LET pos == IF token = 0 THEN start ELSE token
    IN  IF pos + 1 <= arrived
        THEN [records |-> {pos + 1}, nextPageToken |-> IF pos + 1 < arrived THEN pos + 1 ELSE 0]
        ELSE [records |-> {}, nextPageToken |-> 0]

\* The mailbox's answer to users.messages.list(q = labelQuery): newest first
ListPage == Descending(1..arrived)

\* msg.historyId of users.messages.get
MessageHistoryId(m) == m

\* what proposeFromEmailBridge may return for a message (or it throws)
ProposeResults ==
    {<<>>, <<[actionType |-> "cancel_order", payloadHash |-> "h1"]>>,
     <<[actionType |-> "cancel_order", payloadHash |-> "h1"],
       [actionType |-> "cancel_order", payloadHash |-> "h1"]>>}

\* The throttle test of poll, gmail.ts 224-231
Throttled(last, t) == last # 0 /\ (t - last) * TickMs < minIntervalMs

\* pollForUser is called: it runs up to its first await (the settings query).
\* tooSoon (ghost): an earlier poll-started run that reached the mailbox ended less
\* than minIntervalMs ago.
BeginPollForUser(user, queue, results) ==
    [RunIdle EXCEPT !.pc = "settings", !.user = user, !.queue = queue, !.results = results,
                    !.tooSoon = (lastFinish[user] # 0
                                 /\ (now - lastFinish[user]) * TickMs < minIntervalMs)]

\* The concurrency guard of poll, gmail.ts 235-239
AlreadyRunning(user) == user \in activePolls

\* db.insert(emailTable)...onConflictDoNothing(target: userId, gmailMessageId)
InsertEmailNoIndex(table, row) == table \cup {row}

InsertEmail(table, row) ==
    IF \E e \in table : e.userId = row.userId /\ e.gmailMessageId = row.gmailMessageId
    THEN table
    ELSE table \cup {row}

\* the deduplication lookup of pollForUser, gmail.ts 369-372
EmailExists(user, m) == \E e \in emailTable : e.userId = user /\ e.gmailMessageId = m

RECURSIVE InsertProposals(_, _, _, _)
InsertProposals(table, emailId, user, ps) ==
    IF ps = <<>> THEN table
    ELSE InsertProposals(
            InsertProposal(table, NewProposal(Cardinality(table) + 1, emailId,
                                              ps[1].actionType, ps[1].payloadHash)),
            emailId, user, Tail(ps))

\* pollForUser returns `result` (threw = FALSE) or rejects (threw = TRUE): the poll
\* handler's finally releases the lock; the cron loop goes on to its next user, or dies.
Finish(h, result, threw, sent) ==
    LET r == run[h] IN
    /\ lastFinish' = IF Kind(h) = "poll" /\ sent
                     THEN [lastFinish EXCEPT ![r.user] = now] ELSE lastFinish
    /\ IF Kind(h) = "poll"
       THEN /\ activePolls' = activePolls \ {r.user}
            /\ run' = [run EXCEPT ![h] = [RunIdle EXCEPT !.response = IF threw THEN "500" ELSE result]]
       ELSE /\ activePolls' = activePolls
            /\ IF threw
               THEN run' = [run EXCEPT ![h] = [RunIdle EXCEPT !.response = "500",
                                                              !.secret = r.secret]]
               ELSE LET results == Append(r.results, [userId |-> r.user, result |-> result])
                    IN  IF r.queue = <<>>
                        THEN run' = [run EXCEPT ![h] = [RunIdle EXCEPT !.response = "200",
                                                                       !.results = results,
                                                                       !.secret = r.secret]]
                        ELSE run' = [run EXCEPT ![h] =
                                        [BeginPollForUser(Head(r.queue), Tail(r.queue), results)
                                            EXCEPT !.secret = r.secret]]

\* a new request is within the bounds of the scenario
MayStart ==
    /\ ops < limits.ops
    /\ limits.overlap \/ \A g \in Handlers : run[g].pc = "idle"

\* poll, gmail.ts 223-224: the throttle's read of settings.lastPollAt
PollThrottleRead(h) ==
    /\ h \in PollHandlers
    /\ run[h].pc = "idle"
    /\ MayStart
    /\ ops' = ops + 1
    /\ \E u \in Users :
         run' = [run EXCEPT ![h] = [RunIdle EXCEPT !.pc = "throttle", !.user = u,
                                                   !.last = settings[u].lastPollAt]]
    /\ UNCHANGED <<fw, helperVars, proposalTable, workflowVars, settings, emailTable, activePolls,
                   arrived, now, uuids, lastFinish, tokenTable, env, limits>>

\* poll, gmail.ts 225-248: throttle test, concurrency guard, start of pollForUser
PollGuard(h) ==
    /\ run[h].pc = "throttle"
    /\ IF Throttled(run[h].last, now)
       THEN /\ run' = [run EXCEPT ![h] = [RunIdle EXCEPT !.response = "POLL_THROTTLED"]]
            /\ activePolls' = activePolls
       ELSE IF AlreadyRunning(run[h].user)
       THEN /\ run' = [run EXCEPT ![h] = [RunIdle EXCEPT !.response = "POLL_CONCURRENT"]]
            /\ activePolls' = activePolls
       ELSE /\ run' = [run EXCEPT ![h] = BeginPollForUser(run[h].user, <<>>, <<>>)]
            /\ activePolls' = activePolls \cup {run[h].user}
    /\ UNCHANGED <<fw, helperVars, proposalTable, ops, workflowVars, settings, emailTable,
                   arrived, now, uuids, lastFinish, tokenTable, env, limits>>

\* gmail-poll.ts 12: request.headers.get("x-cron-secret") || searchParams.get("secret");
\* "" stands for an absent (null) or empty value, both falsy and both refused below.
RequestSecret(header, query) == IF header # "" THEN header ELSE query

\* gmail-poll.ts 13: !env.CRON_SECRET || secret !== env.CRON_SECRET
UnauthorizedUnlessEqual(secret) == secret # env.CRON_SECRET

Unauthorized(secret) == env.CRON_SECRET = "" \/ secret # env.CRON_SECRET

\* GET /api/cron/gmail-poll, gmail-poll.ts 12-30: secret check, query of the users
\* with auto-pull enabled, first pollForUser call
CronStart(h) ==
    /\ h \in CronHandlers
    /\ run[h].pc = "idle"
    /\ MayStart
    /\ ops' = ops + 1
    /\ \E header \in Secrets, query \in Secrets :
         LET secret == RequestSecret(header, query) IN
         IF Unauthorized(secret)
         THEN run' = [run EXCEPT ![h] = [RunIdle EXCEPT !.response = "401", !.secret = secret]]
         ELSE LET users == SelectSeq(<<"u1", "u2">>, LAMBDA u : settings[u].gmailAutoPullEnabled)
              IN  IF users = <<>>
                  THEN run' = [run EXCEPT ![h] = [RunIdle EXCEPT !.response = "200",
                                                                 !.secret = secret]]
                  ELSE run' = [run EXCEPT ![h] =
                                   [BeginPollForUser(Head(users), Tail(users), <<>>)
                                       EXCEPT !.secret = secret]]
    /\ UNCHANGED <<fw, helperVars, proposalTable, workflowVars, settings, emailTable, activePolls,
                   arrived, now, uuids, lastFinish, tokenTable, env, limits>>

\* pollForUser, gmail.ts 253-308: settings and token lookup
PfuSettings(h) ==
    /\ run[h].pc = "settings"
    /\ LET r == run[h]
           s == settings[r.user]
       IN  IF ~s.gmailAutoPullEnabled
           THEN Finish(h, "disabled", FALSE, FALSE)
           ELSE IF r.user \notin tokenTable
           THEN Finish(h, "GMAIL_NO_TOKEN", FALSE, FALSE)
           ELSE /\ run' = [run EXCEPT ![h] =
                             [r EXCEPT !.pc = IF s.gmailLastHistoryId # 0 THEN "history" ELSE "list",
                                       !.cursor = s.gmailLastHistoryId,
                                       !.next = s.gmailLastHistoryId,
                                       !.maxSeen = s.gmailLastHistoryId]]
                /\ UNCHANGED <<activePolls, lastFinish>>
    /\ UNCHANGED <<fw, helperVars, proposalTable, ops, workflowVars, settings, emailTable,
                   arrived, now, uuids, tokenTable, env, limits>>

\* gmail.ts 339-340 and 345: the ids collected become messageIds; the list is skipped
\* only when there is one.
EndHistory(r, ids, maxSeen) ==
    [r EXCEPT !.ids = {}, !.maxSeen = 0, !.page = 0, !.token = 0,
              !.msgs = Ascending(ids), !.i = 1,
              !.next = IF ids # {} THEN maxSeen ELSE r.next,
              !.pc = IF ids = {} THEN "list" ELSE "dedup"]

\* gmail.ts 317-338: one request of the history loop
PfuHistory(h) ==
    /\ run[h].pc = "history"
    /\ LET r == [run[h] EXCEPT !.sent = TRUE] IN
       \E outcome \in {"ok", "nonok", "throw"} :
         CASE outcome = "throw" ->
                \* caught at line 342: messageIds stays empty
                run' = [run EXCEPT ![h] = [r EXCEPT !.ids = {}, !.maxSeen = 0, !.page = 0,
                                                         !.token = 0, !.msgs = <<>>, !.pc = "list"]]
           [] outcome = "nonok" ->
                run' = [run EXCEPT ![h] = EndHistory([r EXCEPT !.histNonOk = TRUE], r.ids, r.maxSeen)]
           [] outcome = "ok" ->
                LET pg == HistoryPage(r.cursor, r.token)
                    ids == r.ids \cup pg.records
                    rd == [r EXCEPT !.delta = r.delta \cup pg.records]
                    seen == IF pg.records = {} THEN r.maxSeen
                            ELSE Max(r.maxSeen, CHOOSE x \in pg.records : TRUE)
                IN  IF pg.nextPageToken = 0 \/ r.page + 1 >= MaxHistoryPages
                    THEN run' = [run EXCEPT ![h] = EndHistory(rd, ids, seen)]
                    ELSE run' = [run EXCEPT ![h] = [rd EXCEPT !.ids = ids, !.maxSeen = seen,
                                                             !.token = pg.nextPageToken,
                                                             !.page = r.page + 1]]
    /\ UNCHANGED <<fw, helperVars, proposalTable, ops, workflowVars, settings, emailTable, activePolls,
                   arrived, now, uuids, lastFinish, tokenTable, env, limits>>

\* the for loop of gmail.ts 367 is entered, or moves to its next message
LoopAt(r, i) ==
    [r EXCEPT !.i = i, !.pc = IF i > Len(r.msgs) THEN "finish" ELSE "dedup"]

\* gmail.ts 345-362: the fallback list request
PfuList(h) ==
    /\ run[h].pc = "list"
    /\ LET r == [run[h] EXCEPT !.sent = TRUE, !.fellBack = TRUE] IN
       \E outcome \in {"ok", "nonok", "throw"} :
         CASE outcome = "throw" -> Finish(h, "threw", TRUE, TRUE)
           [] outcome = "nonok" ->
                /\ run' = [run EXCEPT ![h] = [r EXCEPT !.pc = "listFailed"]]
                /\ UNCHANGED <<activePolls, lastFinish>>
           [] outcome = "ok" ->
                /\ run' = [run EXCEPT ![h] = LoopAt([r EXCEPT !.msgs = ListPage], 1)]
                /\ UNCHANGED <<activePolls, lastFinish>>
    /\ UNCHANGED <<fw, helperVars, proposalTable, ops, workflowVars, settings, emailTable,
                   arrived, now, uuids, tokenTable, env, limits>>

\* gmail.ts 353-357: record the failed list, return GMAIL_LIST_FAILED
PfuListFailed(h) ==
    /\ run[h].pc = "listFailed"
    /\ settings' = [settings EXCEPT ![run[h].user].lastPollAt = now]
    /\ Finish(h, "GMAIL_LIST_FAILED", FALSE, TRUE)
    /\ UNCHANGED <<fw, helperVars, proposalTable, ops, workflowVars, emailTable,
                   arrived, now, uuids, tokenTable, env, limits>>

\* gmail.ts 369-372: skip a message already stored
PfuDedup(h) ==
    /\ run[h].pc = "dedup"
    /\ LET r == run[h] IN
       IF EmailExists(r.user, r.msgs[r.i])
       THEN run' = [run EXCEPT ![h] = LoopAt(r, r.i + 1)]
       ELSE run' = [run EXCEPT ![h] = [r EXCEPT !.pc = "get"]]
    /\ UNCHANGED <<fw, helperVars, proposalTable, ops, workflowVars, settings, emailTable, activePolls,
                   arrived, now, uuids, lastFinish, tokenTable, env, limits>>

\* gmail.ts 374-402: fetch the message, note its historyId, draw the email id
PfuGet(h) ==
    /\ run[h].pc = "get"
    /\ LET r == [run[h] EXCEPT !.sent = TRUE] IN
       \E outcome \in {"ok", "nonok", "throw"} :
         CASE outcome = "throw" ->
                /\ Finish(h, "threw", TRUE, TRUE)
                /\ uuids' = uuids
           [] outcome = "nonok" ->
                /\ run' = [run EXCEPT ![h] = LoopAt(r, r.i + 1)]
                /\ UNCHANGED <<activePolls, lastFinish, uuids>>
           [] outcome = "ok" ->
                LET id == Cardinality(uuids) + 1 IN
                /\ run' = [run EXCEPT ![h] =
                             [r EXCEPT !.pc = "insert", !.emailId = id,
                                       !.maxFromMsgs = Max(r.maxFromMsgs, MessageHistoryId(r.msgs[r.i]))]]
                /\ uuids' = uuids \cup {[emailId |-> id, msg |-> r.msgs[r.i]]}
                /\ UNCHANGED <<activePolls, lastFinish>>
    /\ UNCHANGED <<fw, helperVars, proposalTable, ops, workflowVars, settings, emailTable,
                   arrived, now, tokenTable, env, limits>>

\* gmail.ts 403-420: insert the email row
PfuInsertEmail(h) ==
    /\ run[h].pc = "insert"
    /\ LET r == run[h] IN
       /\ emailTable' = InsertEmail(emailTable,
                           [id |-> r.emailId, userId |-> r.user, gmailMessageId |-> r.msgs[r.i],
                            historyId |-> MessageHistoryId(r.msgs[r.i])])
       /\ run' = [run EXCEPT ![h] = [r EXCEPT !.pc = "propose"]]
    /\ UNCHANGED <<fw, helperVars, proposalTable, ops, workflowVars, settings, activePolls,
                   arrived, now, uuids, lastFinish, tokenTable, env, limits>>

\* gmail.ts 422-446: ask for proposals and insert them; an agent error is swallowed
PfuPropose(h) ==
    /\ run[h].pc = "propose"
    /\ LET r == run[h] IN
       /\ \E threw \in BOOLEAN, ps \in ProposeResults :
            proposalTable' = IF threw THEN proposalTable
                             ELSE InsertProposals(proposalTable, r.emailId, r.user, ps)
       /\ run' = [run EXCEPT ![h] = LoopAt([r EXCEPT !.emailId = 0], r.i + 1)]
    /\ UNCHANGED <<fw, helperVars, ops, workflowVars, settings, emailTable, activePolls,
                   arrived, now, uuids, lastFinish, tokenTable, env, limits>>

\* gmail.ts 449-450
NewHistoryId(r) == IF r.maxFromMsgs # 0 THEN r.maxFromMsgs ELSE r.next

\* gmail.ts 448-463: store the poll metadata and the cursor, return ok
PfuFinish(h) ==
    /\ run[h].pc = "finish"
    /\ LET r == run[h]
           new == NewHistoryId(r)
       IN  settings' = [settings EXCEPT ![r.user].lastPollAt = now,
                                        ![r.user].gmailLastHistoryId =
                                            IF new # 0 THEN new ELSE r.cursor]
    /\ Finish(h, "ok", FALSE, run[h].sent)
    /\ UNCHANGED <<fw, helperVars, proposalTable, ops, workflowVars, emailTable,
                   arrived, now, uuids, tokenTable, env, limits>>

\* time passes
Tick ==
    /\ now < StartTick + limits.ticks
    /\ now' = now + 1
    /\ UNCHANGED <<fw, helperVars, proposalTable, ops, workflowVars, settings, emailTable, activePolls,
                   run, arrived, uuids, lastFinish, tokenTable, env, limits>>

\* a message arrives in the mailbox
Arrive ==
    /\ arrived < limits.msgs
    /\ arrived' = arrived + 1
    /\ UNCHANGED <<fw, helperVars, proposalTable, ops, workflowVars, settings, emailTable, activePolls,
                   run, now, uuids, lastFinish, tokenTable, env, limits>>

NextPoll ==
    \/ \E h \in Handlers :
         \/ PollThrottleRead(h) \/ PollGuard(h) \/ CronStart(h)
         \/ PfuSettings(h) \/ PfuHistory(h) \/ PfuList(h) \/ PfuListFailed(h)
         \/ PfuDedup(h) \/ PfuGet(h) \/ PfuInsertEmail(h) \/ PfuPropose(h) \/ PfuFinish(h)
    \/ Tick
    \/ Arrive

(***************************************************************************)
(* Part 4: runShopifyAction                                                 *)
(***************************************************************************)

MyShopifySuffix == <<".","m","y","s","h","o","p","i","f","y",".","c","o","m">>

\* /^[a-z0-9](?:[a-z0-9-]*[a-z0-9])?\.myshopify\.com$/i.test(shop)
isValidShopDomain(shop) ==
    LET n == Len(shop)
        k == n - Len(MyShopifySuffix)
    IN  /\ k >= 1
        /\ [i \in 1..Len(MyShopifySuffix) |-> ToLowerChar(shop[k + i])] = MyShopifySuffix
        /\ IsAlNum(shop[1]) /\ IsAlNum(shop[k])
        /\ \A i \in 1..k : IsAlNum(shop[i]) \/ shop[i] = "-"

\* auth.shop values explored
Shops ==
    { <<"r","9","0","1">> \o MyShopifySuffix,
      <<"a","b","c","-","1","2","3">> \o MyShopifySuffix,
      <<"S","h","o","p">> \o <<".","M","Y","S","H","O","P","I","F","Y",".","C","O","M">>,
      <<"s","h","o","p","i","f","y",".","c","o","m">>,
      <<"-","b","a","d">> \o MyShopifySuffix,
      <<"b","a","d","-">> \o MyShopifySuffix,
      <<"n","o","t"," ","a"," ","d","o","m","a","i","n">>,
      <<"e","v","i","l",".","c","o","m","/","x">> \o MyShopifySuffix,
      <<"x">> \o MyShopifySuffix \o <<".","e","v","i","l",".","c","o","m">>,
      MyShopifySuffix,
      <<>> }

JsNumbers == { JsValue("number", n, <<>>) : n \in {0 - 3, 0, 1, 12} }
JsStrings == { JsValue("string", 0, str) :
                 str \in { <<>>, <<"1","2">>, <<" ","7"," ">>, <<"-","3">>, <<"0">>,
                           <<"a","b","c">>, <<"1","2","a">> } }
OrderIdValues ==
    {JsUndefined, JsValue("null", 0, <<>>), JsValue("nan", 0, <<>>), JsValue("infinity", 0, <<>>),
     JsValue("boolean", 1, <<>>), JsValue("boolean", 0, <<>>), JsValue("array", 7, <<>>),
     JsValue("object", 0, <<>>)}
    \cup JsNumbers \cup JsStrings
AddressValues == {JsUndefined, JsValue("null", 0, <<>>), JsValue("object", 0, <<>>)}
ActionTypes == {"cancel_order", "update_address", "resend_order", "refund_order"}

\* !Number.isFinite(orderId) || orderId <= 0
BadOrderId(raw) == LET x == ToNumber(raw) IN x.k # "fin" \/ x.n <= 0

\* !address
Falsy(v) == v.t \in {"undefined", "null", "nan"} \/ (v.t \in {"boolean", "number"} /\ v.n = 0)
                \/ (v.t = "string" /\ v.s = <<>>)

SaParams ==
    [shop : Shops, actionType : ActionTypes, order_id : OrderIdValues,
     shipping_address : AddressValues, send_invoice : BOOLEAN]

\* The checks runShopifyAction makes before its first request (helpers.ts 54-56, 68,
\* 81, 98, 124-125): the code it returns, or "valid"
Validate(params) ==
    IF ~isValidShopDomain(params.shop) THEN "InvalidShopDomain"
    ELSE CASE params.actionType = "cancel_order" ->
                IF BadOrderId(params.order_id) THEN "InvalidInput" ELSE "valid"
           [] params.actionType = "update_address" ->
                IF BadOrderId(params.order_id) \/ Falsy(params.shipping_address)
                THEN "InvalidInput" ELSE "valid"
           [] params.actionType = "resend_order" ->
                IF BadOrderId(params.order_id) THEN "InvalidInput" ELSE "valid"
           [] OTHER -> "UnsupportedAction"

SaIdle ==
    [pc |-> "idle", params |-> [shop |-> <<>>, actionType |-> "cancel_order",
                                order_id |-> JsUndefined, shipping_address |-> JsUndefined,
                                send_invoice |-> FALSE],
     stage |-> "none", requests |-> <<>>, ok |-> FALSE, code |-> "none"]

FirstStage(actionType) ==
    CASE actionType = "cancel_order" -> "cancel"
      [] actionType = "update_address" -> "update"
      [] actionType = "resend_order" -> "load"

SaReturn(r, ok, code) == [r EXCEPT !.pc = "returned", !.stage = "none", !.ok = ok, !.code = code]

\* helpers.ts 54-68 / 81 / 98 / 125: validation, up to the first fetchWithRetry
SaCall ==
    /\ sa.pc = "idle"
    /\ \E params \in SaParams :
         LET v == Validate(params)
             r == [sa EXCEPT !.params = params]
         IN  sa' = IF v = "valid"
                   THEN [r EXCEPT !.pc = "fetch", !.stage = FirstStage(params.actionType)]
                   ELSE SaReturn(r, FALSE, v)
    /\ UNCHANGED <<fw, ar, lp, proposalTable, ops, workflowVars, pollVars>>

\* one awaited fetchWithRetry of runShopifyAction and what follows it
SaFetch ==
    /\ sa.pc = "fetch"
    /\ LET method == CASE sa.stage = "update" -> "PUT" [] sa.stage = "load" -> "GET" [] OTHER -> "POST"
           r == [sa EXCEPT !.requests = Append(sa.requests,
                                 [method |-> method, stage |-> sa.stage,
                                  orderId |-> ToNumber(sa.params.order_id).n])]
       IN  \E outcome \in {"ok", "nonok", "throw"}, present \in BOOLEAN :
             sa' = CASE outcome = "throw" -> SaReturn(r, FALSE, "Exception")
                     [] outcome = "nonok" /\ sa.stage = "cancel" -> SaReturn(r, FALSE, "ShopifyCancelFailed")
                     [] outcome = "nonok" /\ sa.stage = "update" -> SaReturn(r, FALSE, "ShopifyAddressUpdateFailed")
                     [] outcome = "nonok" /\ sa.stage = "load" -> SaReturn(r, FALSE, "NotFound")
                     [] outcome = "nonok" /\ sa.stage = "draft" -> SaReturn(r, FALSE, "DraftCreationFailed")
                     [] outcome = "nonok" /\ sa.stage = "invoice" -> SaReturn(r, TRUE, "none")
                     [] outcome = "ok" /\ sa.stage = "load" ->
                          \* `present`: the response holds an order
                          IF present THEN [r EXCEPT !.stage = "draft"]
                          ELSE SaReturn(r, FALSE, "NotFound")
                     [] outcome = "ok" /\ sa.stage = "draft" ->
                          \* `present`: the response holds a draft order id
                          IF sa.params.send_invoice /\ present
                          THEN [r EXCEPT !.stage = "invoice"]
                          ELSE SaReturn(r, TRUE, "none")
                     [] OTHER -> SaReturn(r, TRUE, "none")
    /\ UNCHANGED <<fw, ar, lp, proposalTable, ops, workflowVars, pollVars>>

NextShopify == SaCall \/ SaFetch

(***************************************************************************)
(* Part 5: fetchWithAuthRetry and doRefresh of pollForUser                  *)
(***************************************************************************)

MaxAuthCalls == 2       \* fetchWithAuthRetry calls of the poll explored

\* An access or refresh token is a positive number, 0 an absent (falsy) one.
\* The stored token JSON a poll may find, gmail.ts 270-279: an access token is
\* present (else the poll returns GMAIL_NO_ACCESS_TOKEN before any request).
TokenJsons == [access_token : {1}, refresh_token : {0, 9}]

\* The body of a 2xx answer of the token endpoint: with or without an access_token
TokenResponses(fresh) == [access_token : {0, fresh}]

\* gmail.ts 499: { ...tokenJson, ...json }
MergeToken(tokenJson, json) ==
    [tokenJson EXCEPT !.access_token =
        IF json.access_token # 0 THEN json.access_token ELSE tokenJson.access_token]

\* res.ok
ResponseOk(status) == status >= 200 /\ status <= 299

\* pc: idle, ready (between calls), fetch, refresh, save, refetch.
\* Closure state: authHeader (the bearer token), tokenJson. stored: the token row.
\* Per call: res (the response held, 0 none), and the ghosts requests (the bearer
\* token of every doFetch), refreshes (token requests made by doRefresh), refreshed
\* ("none", "null": doRefresh returned null, "threw", "ok"), ended ("no",
\* "returned", "threw") and result (the status handed to the caller).
ArIdle ==
    [pc |-> "idle", authHeader |-> 0, tokenJson |-> [access_token |-> 0, refresh_token |-> 0],
     stored |-> [access_token |-> 0, refresh_token |-> 0], next |-> [access_token |-> 0, refresh_token |-> 0],
     calls |-> 0, res |-> 0, requests |-> <<>>, statuses |-> <<>>, refreshes |-> 0,
     refreshed |-> "none", ended |-> "no", result |-> 0]

ArReturn(r, status) == [r EXCEPT !.pc = "ready", !.ended = "returned", !.result = status]
ArThrow(r) == [r EXCEPT !.pc = "ready", !.ended = "threw", !.result = 0]

\* pollForUser, gmail.ts 264-282: the token row is read, authHeader is built
ArPoll ==
    /\ ar.pc = "idle"
    /\ \E t \in TokenJsons :
         ar' = [ArIdle EXCEPT !.pc = "ready", !.tokenJson = t, !.stored = t,
                              !.authHeader = t.access_token]
    /\ UNCHANGED <<fw, sa, lp, proposalTable, ops, workflowVars, pollVars>>

\* fetchWithAuthRetry is called, gmail.ts 283-293
ArCall ==
    /\ ar.pc = "ready"
    /\ ar.calls < MaxAuthCalls
    /\ ar' = [ar EXCEPT !.pc = "fetch", !.calls = ar.calls + 1, !.res = 0, !.requests = <<>>,
                        !.statuses = <<>>, !.refreshes = 0, !.refreshed = "none",
                        !.ended = "no", !.result = 0]
    /\ UNCHANGED <<fw, sa, lp, proposalTable, ops, workflowVars, pollVars>>

\* gmail.ts 294-296 and doRefresh 481-482: the first doFetch ends (fetchWithRetry
\* returns a response or throws); on a 401 doRefresh is entered and returns null
\* at once when the token JSON has no refresh token.
ArFetch ==
    /\ ar.pc = "fetch"
    /\ \E threw \in BOOLEAN, status \in ResponseStatuses :
         LET r == [ar EXCEPT !.requests = Append(ar.requests, ar.authHeader)] IN
         IF threw THEN ar' = ArThrow(r)
         ELSE LET rs == [r EXCEPT !.res = status, !.statuses = Append(r.statuses, status)] IN
              IF status # 401 THEN ar' = ArReturn(rs, status)
              ELSE IF rs.tokenJson.refresh_token = 0
              THEN ar' = ArReturn([rs EXCEPT !.refreshed = "null"], status)
              ELSE ar' = [rs EXCEPT !.pc = "refresh"]
    /\ UNCHANGED <<fw, sa, lp, proposalTable, ops, workflowVars, pollVars>>

\* doRefresh, gmail.ts 483-499: the token request (a fetchWithRetry call) ends
ArRefresh ==
    /\ ar.pc = "refresh"
    /\ \E threw \in BOOLEAN, status \in ResponseStatuses :
         LET r == [ar EXCEPT !.refreshes = ar.refreshes + 1] IN
         IF threw THEN ar' = ArThrow([r EXCEPT !.refreshed = "threw"])
         ELSE IF ~ResponseOk(status)
         THEN ar' = ArReturn([r EXCEPT !.refreshed = "null"], r.res)
         ELSE \E json \in TokenResponses(r.tokenJson.access_token + 1) :
                 ar' = [r EXCEPT !.pc = "save", !.next = MergeToken(r.tokenJson, json)]
    /\ UNCHANGED <<fw, sa, lp, proposalTable, ops, workflowVars, pollVars>>

\* doRefresh, gmail.ts 500-505, and gmail.ts 297-301: the token row is updated,
\* the closure takes the new token
ArSave ==
    /\ ar.pc = "save"
    /\ \E threw \in BOOLEAN :
         IF threw THEN ar' = ArThrow([ar EXCEPT !.refreshed = "threw"])
         ELSE LET r == [ar EXCEPT !.stored = ar.next, !.refreshed = "ok"] IN
              IF r.next.access_token # 0
              THEN ar' = [r EXCEPT !.pc = "refetch", !.authHeader = r.next.access_token,
                                   !.tokenJson = r.next]
              ELSE ar' = ArReturn(r, r.res)
    /\ UNCHANGED <<fw, sa, lp, proposalTable, ops, workflowVars, pollVars>>

\* gmail.ts 300-303: the second doFetch ends; its response is returned as it is
ArRefetch ==
    /\ ar.pc = "refetch"
    /\ \E threw \in BOOLEAN, status \in ResponseStatuses :
         LET r == [ar EXCEPT !.requests = Append(ar.requests, ar.authHeader)] IN
         IF threw THEN ar' = ArThrow(r)
         ELSE ar' = ArReturn([r EXCEPT !.res = status, !.statuses = Append(r.statuses, status)],
                             status)
    /\ UNCHANGED <<fw, sa, lp, proposalTable, ops, workflowVars, pollVars>>

NextAuth == ArPoll \/ ArCall \/ ArFetch \/ ArRefresh \/ ArSave \/ ArRefetch

(***************************************************************************)
(* Part 6: listProposals                                                    *)
(***************************************************************************)

MaxLimit == 2           \* data.limit of the requests explored is 1..MaxLimit
MaxPages == 6           \* pages a client asks for before it gives up

\* The characters of ISO timestamps, proposal ids and the cursor separator, with
\* their UTF-8 bytes (all ASCII)
AsciiTable ==
    { <<"-", 45>>, <<".", 46>>, <<"0", 48>>, <<"1", 49>>, <<"2", 50>>, <<"3", 51>>,
      <<"4", 52>>, <<"5", 53>>, <<"6", 54>>, <<"7", 55>>, <<"8", 56>>, <<"9", 57>>,
      <<":", 58>>, <<"T", 84>>, <<"Z", 90>>, <<"a", 97>>, <<"b", 98>>, <<"c", 99>>,
      <<"d", 100>>, <<"e", 101>>, <<"f", 102>>, <<"|", 124>> }
CharCode(c) == (CHOOSE e \in AsciiTable : e[1] = c)[2]
CodeChar(n) == IF \E e \in AsciiTable : e[2] = n
               THEN (CHOOSE e \in AsciiTable : e[2] = n)[1]
               ELSE "?"

Base64Alphabet == UpperLetters \o LowerLetters \o Digits \o <<"+", "/">>

\* buf.toString("base64"): three bytes make four characters, "=" pads the end
RECURSIVE Base64Encode(_)
Base64Encode(bytes) ==
    IF bytes = <<>> THEN <<>>
    ELSE LET n == Len(bytes)
             v == bytes[1] * 65536 + (IF n >= 2 THEN bytes[2] * 256 ELSE 0)
                                   + (IF n >= 3 THEN bytes[3] ELSE 0)
         IN  << Base64Alphabet[(v \div 262144) + 1],
                Base64Alphabet[((v \div 4096) % 64) + 1],
                IF n >= 2 THEN Base64Alphabet[((v \div 64) % 64) + 1] ELSE "=",
                IF n >= 3 THEN Base64Alphabet[(v % 64) + 1] ELSE "=" >>
             \o Base64Encode(IF n <= 3 THEN <<>> ELSE SubSeq(bytes, 4, n))

RECURSIVE SextetsToBytes(_)
SextetsToBytes(x) ==
    LET n == Len(x) IN
    IF n <= 1 THEN <<>>
    ELSE LET v == x[1] * 262144 + x[2] * 4096 + (IF n >= 3 THEN x[3] * 64 ELSE 0)
                                            + (IF n >= 4 THEN x[4] ELSE 0)
         IN  (IF n = 2 THEN << v \div 65536 >>
              ELSE IF n = 3 THEN << v \div 65536, (v \div 256) % 256 >>
              ELSE << v \div 65536, (v \div 256) % 256, v % 256 >>)
             \o SextetsToBytes(IF n <= 4 THEN <<>> ELSE SubSeq(x, 5, n))

\* Buffer.from(str, "base64"): characters outside the alphabet are skipped
Base64Decode(str) ==
    LET known == SelectSeq(str, LAMBDA c : \E i \in 1..64 : Base64Alphabet[i] = c)
    IN  SextetsToBytes([i \in 1..Len(known) |->
                            (CHOOSE k \in 1..64 : Base64Alphabet[k] = known[i]) - 1])

\* str.split("|")
RECURSIVE Split(_, _)
Split(str, cur) ==
    IF str = <<>> THEN <<cur>>
    ELSE IF Head(str) = "|" THEN <<cur>> \o Split(Tail(str), <<>>)
    ELSE Split(Tail(str), Append(cur, Head(str)))

\* Timestamps are milliseconds since the epoch, below one second in the tables
\* explored. date.toISOString():
IsoPrefix == <<"1","9","7","0","-","0","1","-","0","1","T","0","0",":","0","0",":","0","0",".">>
ToISOString(t) ==
    IsoPrefix \o << Digits[(t \div 100) + 1], Digits[((t \div 10) % 10) + 1], Digits[(t % 10) + 1], "Z" >>

\* new Date(str) for a string of that form; any other string is an Invalid Date (-1)
NewDate(str) ==
    IF /\ Len(str) = 24
       /\ SubSeq(str, 1, 20) = IsoPrefix
       /\ \A i \in 21..23 : IsDigit(str[i])
       /\ str[24] = "Z"
    THEN DigitsValue(SubSeq(str, 21, 23), 0)
    ELSE 0 - 1

\* secureStore.ts 62-71: the cursor is decoded; <<>> is an absent (or empty) cursor.
\* The keyset filter is used when both parts are truthy (line 79).
DecodeCursor(cursor) ==
    IF cursor = <<>> THEN [has |-> FALSE, createdAt |-> 0, id |-> <<>>]
    ELSE LET bytes == Base64Decode(cursor)
             text == [i \in 1..Len(bytes) |-> CodeChar(bytes[i])]     \* toString("utf8")
             parts == Split(text, <<>>)
             ts == parts[1]
             id == IF Len(parts) >= 2 THEN parts[2] ELSE <<>>
         IN  [has |-> ts # <<>> /\ id # <<>>,
              createdAt |-> IF ts # <<>> THEN NewDate(ts) ELSE 0,
              id |-> id]

\* secureStore.ts 125: the cursor of a row
EncodeCursor(row) ==
    LET text == ToISOString(row.createdAt) \o <<"|">> \o row.id
    IN  Base64Encode([i \in 1..Len(text) |-> CharCode(text[i])])     \* Buffer.from(text, "utf8")

\* the database's order of text values (byte order; the same order serves the
\* comparison of line 84 and the ORDER BY of line 119)
RECURSIVE TextLess(_, _)
TextLess(a, b) ==
    IF b = <<>> THEN FALSE
    ELSE IF a = <<>> THEN TRUE
    ELSE IF Head(a) # Head(b) THEN CharCode(Head(a)) < CharCode(Head(b))
    ELSE TextLess(Tail(a), Tail(b))

\* secureStore.ts 81-86: rows after the cursor in (createdAt desc, id desc)
KeysetAfterByDateOnly(row, c) == row.createdAt < c.createdAt

KeysetAfter(row, c) ==
    \/ row.createdAt < c.createdAt
    \/ row.createdAt = c.createdAt /\ TextLess(row.id, c.id)

\* secureStore.ts 74-78 and 89-97: the filters of a request (status "", dateFrom /
\* dateTo <<>>, q "": not given). hit: the joined email's snippet or the row's
\* payload contains the search term explored (the email id is a primary key, so the
\* join adds no row).
Matches(row, user, data) ==
    /\ row.userId = user
    /\ data.status # "" => row.status = data.status
    /\ data.actionType # "" => row.actionType = data.actionType
    /\ data.dateFrom # <<>> => row.createdAt >= NewDate(data.dateFrom)
    /\ data.dateTo # <<>> => row.createdAt <= NewDate(data.dateTo)
    /\ data.q # "" => row.hit

\* secureStore.ts 119: ORDER BY createdAt DESC, id DESC
RowFirst(a, b) == a.createdAt > b.createdAt \/ (a.createdAt = b.createdAt /\ TextLess(b.id, a.id))
RECURSIVE OrderDesc(_)
OrderDesc(rows) ==
    IF rows = {} THEN <<>>
    ELSE LET top == CHOOSE a \in rows : \A b \in rows \ {a} : RowFirst(a, b)
         IN  <<top>> \o OrderDesc(rows \ {top})

\* listProposals, secureStore.ts 59-144: one request
ListProposals(table, user, data) ==
    LET c == DecodeCursor(data.cursor)
        where == { r \in table : Matches(r, user, data) /\ (c.has => KeysetAfter(r, c)) }
        ordered == OrderDesc(where)
        rows == SubSeq(ordered, 1, IF Len(ordered) < data.limit + 1 THEN Len(ordered) ELSE data.limit + 1)
        items == SubSeq(rows, 1, IF Len(rows) < data.limit THEN Len(rows) ELSE data.limit)
        hasMore == Len(rows) > data.limit
    IN  [proposals |-> items,
         hasMore |-> hasMore,
         nextCursor |-> IF hasMore /\ items # <<>> THEN EncodeCursor(items[Len(items)]) ELSE <<>>,
         totalCount |-> Cardinality({ r \in table : Matches(r, user, data) })]

\* The proposal rows a table may hold (createdAt is drawn by new Date() at the
\* insert, so rows of one poll can share a millisecond), and the requests explored
ProposalRows ==
    { [id |-> <<"a","1">>,     createdAt |-> 5, userId |-> "u1", status |-> "proposed", actionType |-> "cancel_order", hit |-> TRUE],
      [id |-> <<"a","-","1">>, createdAt |-> 5, userId |-> "u1", status |-> "proposed", actionType |-> "update_address", hit |-> TRUE],
      [id |-> <<"b","0">>,     createdAt |-> 5, userId |-> "u1", status |-> "approved", actionType |-> "cancel_order", hit |-> FALSE],
      [id |-> <<"0","f">>,     createdAt |-> 7, userId |-> "u1", status |-> "proposed", actionType |-> "cancel_order", hit |-> TRUE],
      [id |-> <<"f">>,         createdAt |-> 120, userId |-> "u1", status |-> "proposed", actionType |-> "cancel_order", hit |-> TRUE],
      [id |-> <<"c","9">>,     createdAt |-> 7, userId |-> "u2", status |-> "proposed", actionType |-> "cancel_order", hit |-> TRUE],
      [id |-> <<"d","e">>,     createdAt |-> 3, userId |-> "u1", status |-> "executed", actionType |-> "cancel_order", hit |-> TRUE] }
ListRequests ==
    [status : {"", "proposed"}, actionType : {"", "cancel_order"},
     dateFrom : {<<>>, ToISOString(5)}, dateTo : {<<>>, ToISOString(7)},
     q : {"", "refund"}, limit : 1..MaxLimit, cursor : {<<>>}]

\* pc: idle, paging, done. pages: the page object of every answer; seen: the
\* proposals of the answers, in the order received.
LpIdle ==
    [pc |-> "idle", table |-> {}, user |-> "u1",
     data |-> [status |-> "", actionType |-> "", dateFrom |-> <<>>, dateTo |-> <<>>,
               q |-> "", limit |-> 1, cursor |-> <<>>],
     pages |-> <<>>, seen |-> <<>>]

\* a client opens the proposal list of a user: the first request is built
\* (proposals.tsx 93-105, initialPageParam null)
LpOpen ==
    /\ lp.pc = "idle"
    /\ \E table \in SUBSET ProposalRows, data \in ListRequests :
         lp' = [LpIdle EXCEPT !.pc = "paging", !.table = table, !.data = data]
    /\ UNCHANGED <<fw, sa, ar, proposalTable, ops, workflowVars, pollVars>>

\* one request is answered; the client asks for the next page with nextCursor while
\* hasMore is true (proposals.tsx 94)
LpPage ==
    /\ lp.pc = "paging"
    /\ Len(lp.pages) < MaxPages
    /\ \E res \in {ListProposals(lp.table, lp.user, lp.data)} :
       lp' = [lp EXCEPT !.pages = Append(lp.pages,
                                         [limit |-> lp.data.limit, cursor |-> lp.data.cursor,
                                          nextCursor |-> res.nextCursor, hasMore |-> res.hasMore,
                                          totalCount |-> res.totalCount]),
                        !.seen = lp.seen \o res.proposals,
                        !.data = [lp.data EXCEPT !.cursor = IF res.hasMore THEN res.nextCursor ELSE <<>>],
                        !.pc = IF res.hasMore THEN "paging" ELSE "done"]
    /\ UNCHANGED <<fw, sa, ar, proposalTable, ops, workflowVars, pollVars>>

NextList == LpOpen \/ LpPage

(***************************************************************************)
(* Specifications                                                           *)
(***************************************************************************)

InitFetch == fw = FwIdle /\ sa = SaIdle /\ ar = ArIdle /\ lp = LpIdle
InitWorkflow ==
    /\ actionTable = <<>>
    /\ exec = [h \in ExecHandlers |-> ExecIdle]
    /\ review = [h \in ReviewHandlers |-> ReviewIdle]
    /\ orch = OrchIdle
    /\ calls = <<>>
    /\ ops = 0

InitHandlers ==
    /\ activePolls = {}
    /\ run = [h \in Handlers |-> RunIdle]
    /\ now = StartTick
    /\ lastFinish = [u \in Users |-> 0]

\* Nothing polled yet. u1 has connected Gmail and enabled auto-pull; u2 has not
\* connected Gmail and may have enabled auto-pull all the same.
InitFresh ==
    /\ emailTable = {}
    /\ arrived = 0
    /\ uuids = {}
    /\ settings \in [Users -> [gmailAutoPullEnabled : BOOLEAN, lastPollAt : {0}, gmailLastHistoryId : {0}]]
    /\ settings["u1"].gmailAutoPullEnabled
    /\ tokenTable = {"u1"}
    /\ env \in [CRON_SECRET : {"", "s3cret"}]

\* u1's first message was polled two ticks ago: its email row is stored and the
\* cursor stands at its history id.
InitSynced ==
    /\ emailTable = {[id |-> 1, userId |-> "u1", gmailMessageId |-> 1, historyId |-> 1]}
    /\ arrived \in 1..limits.msgs
    /\ uuids = {[emailId |-> 1, msg |-> 1]}
    /\ settings = [u \in Users |->
                     [gmailAutoPullEnabled |-> (u = "u1"),
                      lastPollAt |-> IF u = "u1" THEN StartTick - 2 ELSE 0,
                      gmailLastHistoryId |-> IF u = "u1" THEN 1 ELSE 0]]
    /\ tokenTable = {"u1"}
    /\ env = [CRON_SECRET |-> "s3cret"]

InitProposals ==
    /\ InitFetch /\ InitWorkflow /\ InitHandlers
    /\ limits = [ops |-> PollOps, msgs |-> Cardinality(PollMailbox), ticks |-> PollTicks, overlap |-> TRUE]
    /\ InitFresh
    /\ ~settings["u2"].gmailAutoPullEnabled
    /\ env.CRON_SECRET = "s3cret"
    /\ proposalTable = {NewProposal(1, 1, "cancel_order", "h1")}

Init == InitProposals

InitPoll ==
    /\ InitFetch /\ InitWorkflow /\ InitHandlers
    /\ limits = [ops |-> PollOps, msgs |-> Cardinality(PollMailbox), ticks |-> PollTicks, overlap |-> TRUE]
    /\ InitFresh
    /\ proposalTable = {}

InitSync ==
    /\ InitFetch /\ InitWorkflow /\ InitHandlers
    /\ limits = [ops |-> SyncOps, msgs |-> SyncMsgs, ticks |-> SyncTicks, overlap |-> FALSE]
    /\ InitSynced
    /\ proposalTable = {}

Next == NextFetch \/ NextProposals \/ NextPoll \/ NextShopify \/ NextAuth \/ NextList
Spec == Init /\ [][Next]_vars

\* One specification for each part of the program
SpecFetch == Init /\ [][NextFetch]_vars
SpecProposals == Init /\ [][NextProposals]_vars
SpecPoll == InitPoll /\ [][NextPoll]_vars
SpecSync == InitSync /\ [][NextPoll]_vars
SpecShopify == Init /\ [][NextShopify]_vars
SpecAuth == Init /\ [][NextAuth]_vars
SpecList == Init /\ [][NextList]_vars

(***************************************************************************)
(* Claims                                                                   *)
(***************************************************************************)

Range(q) == { q[k] : k \in 1..Len(q) }
LoopPcs == {"dedup", "get", "insert", "propose", "finish"}

C5_StatusMovesForward ==
    [][\A id \in ProposalIds :
         LET before == StatusOf(id)
             after == IF \E r \in proposalTable' : r.id = id
                      THEN (CHOOSE r \in proposalTable' : r.id = id).status ELSE "none"
         IN  /\ before \in {"executed", "failed"} => after = before
             /\ before \notin {"none", "proposed"} => after # "proposed"]_vars

\* C2 (as stated): for every user at most one pollForUser run is in progress.
C2_OnePollPerUser ==
    \A u \in Users : Cardinality({ h \in Handlers : InPollForUser(h) /\ run[h].user = u }) <= 1

MsgOf(emailId) == (CHOOSE x \in uuids : x.emailId = emailId).msg

\* C3 (as stated): no two proposal rows exist for the same mailbox message,
\* actionType and payload hash.
C3_ProposalsIdempotent ==
    \A r1, r2 \in proposalTable :
        (MsgOf(r1.emailId) = MsgOf(r2.emailId)
         /\ r1.actionType = r2.actionType /\ r1.payloadHash = r2.payloadHash) => r1 = r2

\* C4: the email table holds at most one row per (userId, gmailMessageId).
C4_EmailsUnique ==
    \A e1, e2 \in emailTable :
        (e1.userId = e2.userId /\ e1.gmailMessageId = e2.gmailMessageId) => e1 = e2

\* C4 witness: two overlapping runs fetched the same message and both ran their
\* insert; the second insert met the unique index (its email id has no row, though
\* the run has gone on to its proposals).
C4_Witness ==
    \E x, y \in uuids :
        /\ x.msg = y.msg /\ x.emailId # y.emailId
        /\ \E e \in emailTable : e.id = x.emailId
        /\ \A e \in emailTable : e.id # y.emailId
        /\ \A h \in Handlers : run[h].emailId # y.emailId \/ run[h].pc = "propose"

\* C6 (as stated): a poll-started run that sends a mailbox request never starts less
\* than minIntervalMs after an earlier poll-started run that sent one has ended.
C6_ThrottleHolds ==
    \A h \in PollHandlers : (InPollForUser(h) /\ run[h].sent) => ~run[h].tooSoon

\* C7 (as stated): pollForUser sends the list request whenever no cursor is stored, a
\* history request was answered non-ok or the history delta held no added message;
\* otherwise it sends none and processes exactly the message ids of the delta.
C7_FallbackRule ==
    \A h \in Handlers :
        run[h].pc \in LoopPcs =>
            LET r == run[h]
                fallback == r.cursor = 0 \/ r.histNonOk \/ r.delta = {}
            IN  /\ fallback => r.fellBack
                /\ ~fallback => (~r.fellBack /\ Range(r.msgs) = r.delta)

\* C8: a call sends at most retries + 1 requests (3 with the default retries = 2)
\* and has returned or thrown once the last of them is answered.
C8_BoundedAttempts ==
    fw.pc # "idle" =>
        /\ Len(fw.sent) <= OptRetries(fw.opts) + 1
        /\ ("retries" \notin DOMAIN fw.opts => Len(fw.sent) <= 3)
        /\ (Len(fw.sent) = OptRetries(fw.opts) + 1 => fw.pc \in {"returned", "thrown"})

\* C8 witness: a call with the default retries has sent its third request and ended.
C8_Witness ==
    /\ "retries" \notin DOMAIN fw.opts
    /\ Len(fw.sent) = 3
    /\ fw.pc = "thrown"

\* a 500 response, a 429 response or a timeout
FailsRetryably(o) == o \in {500, 429, 0 - 1}

\* C9: if the first k attempts (1 <= k <= retries) fail retryably and attempt k+1
\* receives a 200, the call returns that 200 after exactly k+1 requests.
C9_RecoversAfterFailures ==
    \A k \in 1..OptRetries(fw.opts) :
        (/\ Len(fw.outcomes) > k
         /\ \A j \in 1..k : FailsRetryably(fw.outcomes[j])
         /\ fw.outcomes[k + 1] = 200)
        => (/\ fw.pc = "returned"
            /\ Len(fw.sent) = k + 1
            /\ Len(fw.outcomes) = k + 1)

\* C9 witness: a 429, then a timeout, then a 200 that is returned.
C9_Witness ==
    /\ fw.pc = "returned"
    /\ fw.outcomes = <<429, 0 - 1, 200>>

\* C10 (as stated): a mutating call carries one non-empty X-Idempotency-Key on every
\* attempt, the caller's idempotencyKey when one is given; a call with another
\* method gets no generated key.
C10_IdempotencyKeyAsStated ==
    fw.pc # "idle" =>
        IF isMutating(fw.opts.method)
        THEN /\ \A k \in 1..Len(fw.sent) : fw.sent[k] = fw.key
             /\ fw.key # ""
             /\ (fw.opts.idempotencyKey # "" => fw.key = fw.opts.idempotencyKey)
        ELSE fw.key \notin GeneratedKeys

\* C10 (amended): a mutating call carries one non-empty X-Idempotency-Key on every
\* attempt: the X-Idempotency-Key of the caller's headers when they hold one,
\* otherwise the caller's idempotencyKey when one is given, otherwise a generated
\* key; a call with another method gets no generated key and keeps the caller's header.
C10_IdempotencyKey ==
    fw.pc # "idle" =>
        IF isMutating(fw.opts.method)
        THEN /\ \A k \in 1..Len(fw.sent) : fw.sent[k] = fw.key
             /\ fw.key # ""
             /\ (fw.opts.hdrKey # "" => fw.key = fw.opts.hdrKey)
             /\ (fw.opts.hdrKey = "" /\ fw.opts.idempotencyKey # ""
                    => fw.key = fw.opts.idempotencyKey)
             /\ (fw.opts.hdrKey = "" /\ fw.opts.idempotencyKey = ""
                    => fw.key \in GeneratedKeys)
        ELSE fw.key = fw.opts.hdrKey

\* C10 witness: a PUT whose caller gave both a header and an idempotencyKey has been
\* retried twice.
C10_Witness ==
    /\ fw.opts.method = "put"
    /\ fw.opts.hdrKey # "" /\ fw.opts.idempotencyKey # ""
    /\ Len(fw.sent) = 3

\* "<label>.myshopify.com", in any letter case
EndsWithMyShopify(shop) ==
    /\ Len(shop) > Len(MyShopifySuffix)
    /\ [i \in 1..Len(MyShopifySuffix) |->
          ToLowerChar(shop[Len(shop) - Len(MyShopifySuffix) + i])] = MyShopifySuffix

\* the value is a number, or a numeral string, that is finite and positive
IsFinitePositiveNumber(v) ==
    /\ v.t \in {"number", "string"}
    /\ ToNumber(v).k = "fin" /\ ToNumber(v).n > 0

SaRefused(code) == sa.pc = "returned" /\ sa.requests = <<>> /\ ~sa.ok /\ sa.code = code

\* C11 (as stated): when validation fails runShopifyAction sends no request and
\* returns ok:false with InvalidShopDomain for a shop that is no *.myshopify.com
\* domain, InvalidInput for an order_id that is no finite positive number or a missing
\* shipping_address of update_address, UnsupportedAction for any other action type.
C11_ValidatesBeforeCall ==
    sa.pc # "idle" =>
        LET p == sa.params
            supported == p.actionType \in {"cancel_order", "update_address", "resend_order"}
        IN  /\ ~EndsWithMyShopify(p.shop) => SaRefused("InvalidShopDomain")
            /\ (isValidShopDomain(p.shop) /\ supported /\ ~IsFinitePositiveNumber(p.order_id))
                  => SaRefused("InvalidInput")
            /\ (isValidShopDomain(p.shop) /\ p.actionType = "update_address"
                /\ p.shipping_address.t \in {"undefined", "null"})
                  => SaRefused("InvalidInput")
            /\ (isValidShopDomain(p.shop) /\ ~supported) => SaRefused("UnsupportedAction")

\* a thrown error or timeout, a 429 response or a response with status >= 500
Retryable(o) == o \in {0, 0 - 1} \/ o = 429 \/ o >= 500

\* C17: a request is re-sent only after a 429, a status >= 500 or a thrown error or
\* timeout; a response with any other status is returned right after the attempt
\* that received it.
C17_RetryOnlyWhenRetryable ==
    \A j \in 1..Len(fw.outcomes) :
        ~Retryable(fw.outcomes[j]) =>
            /\ j = Len(fw.outcomes) /\ Len(fw.sent) = j
            /\ fw.pc = "returned" /\ fw.result = fw.outcomes[j]

\* C17 witness: a 503 was retried and the 404 that followed was returned at once,
\* with two retries left.
C17_Witness ==
    /\ fw.pc = "returned"
    /\ OptRetries(fw.opts) = 3
    /\ fw.outcomes = <<503, 404>>

\* C18: when every one of the retries+1 attempts receives a retryable response the
\* call returns the last response; when the last allowed attempt throws or times out
\* that error is thrown.
C18_LastResultHandedOver ==
    (fw.pc # "idle" /\ Len(fw.outcomes) = OptRetries(fw.opts) + 1) =>
        LET last == fw.outcomes[Len(fw.outcomes)] IN
        /\ (\A j \in 1..Len(fw.outcomes) : fw.outcomes[j] = 429 \/ fw.outcomes[j] >= 500)
              => (fw.pc = "returned" /\ fw.result = last)
        /\ last \in {0, 0 - 1} => (fw.pc = "thrown" /\ fw.result = last)

\* C18 witness: three retryable responses under the default retries; the third is returned.
C18_Witness ==
    /\ "retries" \notin DOMAIN fw.opts
    /\ fw.outcomes = <<500, 429, 503>>
    /\ fw.pc = "returned"

\* the header's text is a decimal numeral greater than zero
PositiveNumeric(h) ==
    /\ h.t = "string" /\ h.s # <<>>
    /\ \A i \in 1..Len(h.s) : IsDigit(h.s[i])
    /\ DigitsValue(h.s, 0) > 0

\* C19: before retry n the call waits Retry-After x 1000 ms when the retried response
\* carries a positive numeric Retry-After, otherwise backoffMs x 2^(n-1) ms plus a
\* jitter of 0..249 ms; a retry after an error or timeout always uses the latter.
C19_Backoff ==
    fw.attempt >= 1 =>
        LET n == fw.attempt
            retried == fw.outcomes[n]
            jitter == fw.wait - OptBackoffMs(fw.opts) * Pow2(n - 1)
        IN  IF retried \notin {0, 0 - 1} /\ PositiveNumeric(fw.retryAfter)
            THEN fw.wait = DigitsValue(fw.retryAfter.s, 0) * 1000
            ELSE jitter \in 0..249

\* C19 witness: the second retry follows a 503 with Retry-After: 2 and waits 2000 ms.
C19_Witness ==
    /\ fw.attempt = 2
    /\ fw.outcomes[2] = 503
    /\ fw.retryAfter = JsValue("string", 0, <<"2">>)
    /\ fw.wait = 2000

AutoPullUsers == { u \in Users : settings[u].gmailAutoPullEnabled }

\* C12 (as stated): an authorized cron request is answered 200 with exactly one
\* result envelope for every user whose gmailAutoPullEnabled is true, whatever
\* happens in the poll of any one of them.
C12_CronPollsEveryUser ==
    \A h \in CronHandlers :
        (run[h].pc = "idle" /\ run[h].response \notin {"none", "401"}) =>
            /\ run[h].response = "200"
            /\ Len(run[h].results) = Cardinality(AutoPullUsers)
            /\ \A u \in AutoPullUsers :
                 Cardinality({ k \in 1..Len(run[h].results) : run[h].results[k].userId = u }) = 1

\* C13: the cron route answers 401, and starts no poll and writes nothing, unless the
\* request carried a secret equal to a configured, non-empty CRON_SECRET: a refused
\* request is answered 401 at once, a request that polls or is answered otherwise was
\* authorized, and the step that answers 401 leaves every table as it was.
CronAuthorized(h) == env.CRON_SECRET # "" /\ run[h].secret = env.CRON_SECRET

C13_CronNeedsSecret ==
    /\ [](\A h \in CronHandlers :
            run[h].secret # "none" =>
                IF CronAuthorized(h)
                THEN run[h].response # "401"
                ELSE run[h].pc = "idle" /\ run[h].response = "401")
    /\ [][\A h \in CronHandlers :
            (run[h] # run'[h] /\ run'[h].response = "401") =>
                /\ run'[h].pc = "idle" /\ ~run'[h].sent
                /\ UNCHANGED <<settings, emailTable, proposalTable, actionTable,
                               tokenTable, activePolls, lastFinish, uuids>>]_vars

\* C13 witness: a request with the wrong secret was answered 401 while a secret is
\* configured and a user has auto-pull enabled.
C13_Witness ==
    \E h \in CronHandlers :
        /\ run[h].response = "401" /\ run[h].secret = "wrong"
        /\ env.CRON_SECRET = "s3cret" /\ AutoPullUsers # {}

\* C14: a proposal is executed at most once: however executeProposal calls and
\* reviews of one proposal interleave, executeProposal makes at most one commerce
\* call for it (every such call is followed by the insertion of one action row).
ExecuteCalls(id) ==
    { k \in 1..Len(calls) : calls[k].proposalId = id /\ calls[k].by = "executeProposal" }

C14_ExecutedAtMostOnce == \A id \in ProposalIds : Cardinality(ExecuteCalls(id)) <= 1

\* C15: the history cursor never moves backward: the step that completes a
\* pollForUser stores a gmailLastHistoryId that is at least the one that poll found
\* stored when it began.
C15_CursorMonotonic ==
    [][\A h \in Handlers :
          (run[h].pc = "finish" /\ run'[h].pc # "finish") =>
              settings'[run[h].user].gmailLastHistoryId >= run[h].cursor]_vars

\* C16: no message is lost by the delta sync: when a pollForUser completes, every
\* message its history requests reported as added and that the stored cursor has
\* reached has an email row.
C16_NoMessageLost ==
    [][\A h \in Handlers :
          (run[h].pc = "finish" /\ run'[h].pc # "finish") =>
              \A m \in run[h].delta :
                  m <= settings'[run[h].user].gmailLastHistoryId =>
                      \E e \in emailTable' : e.userId = run[h].user /\ e.gmailMessageId = m]_vars

\* C20: within one fetchWithAuthRetry call a 401 triggers at most one token refresh
\* and at most one re-issue, made with the token the refresh returned and only after
\* a 401 and a refresh; when the re-issued request is answered 401, or the refresh
\* failed, the call ends by handing the 401 response to its caller.
C20_RefreshOnce ==
    /\ ar.refreshes <= 1
    /\ Len(ar.requests) <= 2
    /\ Len(ar.requests) = 2 =>
          /\ ar.statuses[1] = 401 /\ ar.refreshed = "ok"
          /\ ar.requests[2] = ar.stored.access_token
    /\ (ar.pc = "ready" /\ ar.calls > 0
          /\ (ar.refreshed \in {"null", "threw"}
               \/ (Len(ar.statuses) = 2 /\ ar.statuses[2] = 401))) =>
          ar.ended = "returned" /\ ar.result = 401

\* C21: the keyset pagination of listProposals is complete and duplicate-free: the
\* proposals received so far are distinct, match the filters and are in descending
\* (createdAt, id) order; when hasMore is false every matching proposal has been
\* received; nextCursor is non-null exactly when hasMore is true.
C21_PaginationComplete ==
    /\ \A i, j \in 1..Len(lp.seen) : i < j => RowFirst(lp.seen[i], lp.seen[j])
    /\ \A i \in 1..Len(lp.seen) : lp.seen[i] \in lp.table /\ Matches(lp.seen[i], lp.user, lp.data)
    /\ \A k \in 1..Len(lp.pages) : (lp.pages[k].nextCursor # <<>>) <=> lp.pages[k].hasMore
    /\ lp.pc = "done" =>
          { lp.seen[i] : i \in 1..Len(lp.seen) } = { r \in lp.table : Matches(r, lp.user, lp.data) }

\* C21 witness: a walk of three pages or more has ended, a page boundary fell
\* between two proposals created in the same millisecond, and the table holds a
\* proposal the filters exclude.
C21_Witness ==
    /\ lp.pc = "done" /\ Len(lp.pages) >= 3
    /\ \E i \in 1..Len(lp.seen) - 1 :
          /\ i % lp.data.limit = 0
          /\ lp.seen[i].createdAt = lp.seen[i + 1].createdAt
    /\ \E r \in lp.table : ~Matches(r, lp.user, lp.data)

====
